---- MODULE Spec2Model ----
(***************************************************************************)
(* Model of PathfinderApp/App.js: the App component's state (React hooks), *)
(* the capture-and-describe pipeline (processImage), the Stop, mode and    *)
(* remote-control handlers, the permission request run on mount, and the   *)
(* expo-speech sink (Speech.stop / Speech.speak).                          *)
(*                                                                         *)
(* processImage is an async function: every invocation that passes its     *)
(* entry check is a run that lives across two suspension points (the       *)
(* await of takePictureAsync, and the awaits of fetch + response.json()).  *)
(* The two awaits of the backend call are one suspension point here: the   *)
(* continuation between them (line 278) touches no state.                  *)
(***************************************************************************)
EXTENDS Integers, Sequences, FiniteSets, TLC

\* Bound on the number of processImage runs started in one behaviour.
MaxRuns == 2

\* The same bound in the behaviours that use the remote control.
MaxRemoteRuns == 1

Modes == {"read", "navigate", "passive"}

-----------------------------------------------------------------------------
(* Texts                                                                   *)

InitialMessage == "Initializing app..."
RequestingMsg == "Requesting camera and speech permissions..."
GrantedMsg == "Camera and Speech permissions granted. Select a mode and tap the button."
CameraDeniedMsg == "Camera permission not granted. Please enable it in settings. "
ModuleMissingMsg == "Camera module not found or not functional. Please ensure all Expo packages are installed correctly."
PermissionErrorMsg(e) == "Error requesting permissions: " \o e \o ". Please check app settings."
NotReadyMsg == "Camera not ready. Please wait or refresh the app."
AnalyzingMsg == "Analyzing image, please wait..."
FallbackMsg == "No clear description was generated. Please try again."
StoppedMsg == "Stopped all operations"
RemoteDisabledMsg == "Remote control disabled"
placeholderIP == "192.168.1.100"
serverPort == 8080
RemoteEnabledMsg == "Remote control enabled. Other devices can send commands to: http://" \o placeholderIP \o ":" \o ToString(serverPort)

ErrorMessage(e) == "Failed to get description: " \o e \o ". Please try again."

ModeMsg(m) ==
  CASE m = "read" -> "Mode set to Read. Tap \"Read Document\" to scan text."
    [] m = "navigate" -> "Mode set to Navigate. Tap \"Get Navigation Cues\" for indoor guidance."
    [] OTHER -> "Mode set to Passive. Tap \"Describe Environment\" for general descriptions."

getPromptForMode_NoNavigateCase(mode) ==
  CASE mode = "read" -> "Extract all readable text from this image. No extra commentary or explanation. Prioritize the most important text."
    [] OTHER -> "Describe the scene briefly. Focus on elements that would be helpful for a visually impaired person to navigate or understand their surroundings. For example, if there's text, read it out. If there are obstacles, describe them. Be concise but informative."

getPromptForMode(mode) ==
  CASE mode = "read" -> "Extract all readable text from this image. No extra commentary or explanation. Prioritize the most important text."
    [] mode = "navigate" -> "Describe the immediate environment for indoor navigation. Identify key objects, obstacles, pathways, and directional cues. Mention any furniture, doors, stairs, changes in floor level, or other significant features. Provide guidance on what's directly in front, to the left, and to the right. Highlight potential hazards or clear paths."
    [] OTHER -> "Describe the scene briefly. Focus on elements that would be helpful for a visually impaired person to navigate or understand their surroundings. For example, if there's text, read it out. If there are obstacles, describe them. Be concise but informative."

-----------------------------------------------------------------------------
(* Inputs: what the collaborators can answer                               *)

\* error.message of a rejected takePictureAsync, fetch, response.json()
\* and Camera.requestCameraPermissionsAsync
CaptureErrors == {"Camera is not running"}
FetchErrors == {"Network request failed"}
ParseErrors == {"JSON Parse error: Unexpected token <"}
PermissionErrors == {"Permission request failed"}

\* The value of a JavaScript expression that evaluates to undefined.
UndefinedText == "<undefined>"

TextPart(t) == [hasText |-> TRUE, text |-> t]
\* a part without a text field, e.g. an inlineData part
DataPart == [hasText |-> FALSE, text |-> ""]

Candidate(ps) == [hasContent |-> TRUE, hasParts |-> TRUE, parts |-> ps]
CandidateNoContent == [hasContent |-> FALSE, hasParts |-> FALSE, parts |-> <<>>]
CandidateNoParts == [hasContent |-> TRUE, hasParts |-> FALSE, parts |-> <<>>]

Result(cs) == [hasCandidates |-> TRUE, candidates |-> cs]
\* a body without a candidates field, e.g. {"error": {...}}
ResultNoCandidates == [hasCandidates |-> FALSE, candidates |-> <<>>]

\* The parsed bodies the backend is taken to return.
Responses ==
  { ResultNoCandidates,
    Result(<<>>),
    Result(<<CandidateNoContent>>),
    Result(<<CandidateNoParts>>),
    Result(<<Candidate(<<>>)>>),
    Result(<<Candidate(<<TextPart("Exit sign ahead")>>)>>),
    Result(<<Candidate(<<TextPart("Stairs on the left"), TextPart("Door ahead")>>),
             Candidate(<<TextPart("Exit sign ahead")>>)>>),
    Result(<<Candidate(<<TextPart("")>>)>>),
    Result(<<Candidate(<<DataPart>>)>>) }

\* The condition of the if at lines 282-284.
HasDescription(result) ==
  /\ result.hasCandidates
  /\ Len(result.candidates) > 0
  /\ result.candidates[1].hasContent
  /\ result.candidates[1].hasParts
  /\ Len(result.candidates[1].parts) > 0

\* The value of description at line 291.
Description_KeepsInitial(result) ==
  IF HasDescription(result)
    THEN IF result.candidates[1].parts[1].hasText
           THEN result.candidates[1].parts[1].text
           ELSE UndefinedText
    ELSE "Could not get a description."

Description_LastPart(result) ==
  IF HasDescription(result)
    THEN LET parts == result.candidates[1].parts IN
         IF parts[Len(parts)].hasText THEN parts[Len(parts)].text ELSE UndefinedText
    ELSE FallbackMsg

Description(result) ==
  IF HasDescription(result)
    THEN IF result.candidates[1].parts[1].hasText
           THEN result.candidates[1].parts[1].text
           ELSE UndefinedText
    ELSE FallbackMsg

-----------------------------------------------------------------------------
(* State                                                                   *)

VARIABLES
  hasPermission,         \* "null", "true" or "false"
  permission,            \* requestPermissions: [pc, permissionMessage]
  cameraReady,
  currentMode,
  message,
  isProcessing,
  remoteControlEnabled,
  serverStatus,
  deviceIP,
  utterances,            \* the speech sink: the utterance being spoken, then the queued ones
  inflight,              \* the processImage runs that have not settled, oldest first
  nStarted,              \* number of runs started so far
  settled,               \* history: the run that settled in the last step, if one did
  lastEvent,             \* history: the handler or continuation that ran last
  lastCancelled,         \* history: utterances a bare Speech.stop() (Stop handler, processImage) removed in the last step
  lastCommand            \* history: the token handleRemoteCommand received in the last step

vars == <<hasPermission, permission, cameraReady, currentMode, message, isProcessing,
          remoteControlEnabled, serverStatus, deviceIP, utterances, inflight, nStarted,
          settled, lastEvent, lastCancelled, lastCommand>>

appVars == <<hasPermission, permission, cameraReady, currentMode, message, isProcessing,
             remoteControlEnabled, serverStatus, deviceIP>>

\* The value of settled after a step in which no run settled.
NoRun == [outcome |-> "none", said |-> "", requests |-> 0, stoppedIn |-> "none",
          prompt |-> "", cause |-> "", result |-> <<>>]

-----------------------------------------------------------------------------
(* Speech sink (expo-speech)                                               *)

\* Speech.stop(): interrupts the current utterance and drops the queued ones.
SpeechStop(q) == <<>>

\* Speech.speak(text): adds the utterance to the sink's queue.
SpeechSpeak(q, text) == Append(q, text)

speak_WithoutStop(q, text) == SpeechSpeak(q, text)

speak(q, text) == SpeechSpeak(SpeechStop(q), text)

\* updateMessage(msg, shouldSpeak), applied to the sink q the handler has so far
updateMessage(q, msg, shouldSpeak) ==
  /\ message' = msg
  /\ utterances' = IF shouldSpeak THEN speak(q, msg) ELSE q

\* The current utterance ends by itself.
SpeechFinish ==
  /\ utterances # <<>>
  /\ utterances' = Tail(utterances)
  /\ lastEvent' = "speech_finished"
  /\ lastCancelled' = 0
  /\ settled' = NoRun
  /\ lastCommand' = <<>>
  /\ UNCHANGED <<appVars, inflight, nStarted>>

-----------------------------------------------------------------------------
(* Rendering                                                               *)

\* The main UI (camera view and controls) is rendered only past the two
\* permission gates.
MainUI_NotNull == hasPermission # "null"

MainUI == hasPermission = "true"

\* cameraRef.current: set while the CameraView is mounted.
cameraRefCurrent == MainUI

\* The disabled prop of the capture button (Camera and Speech are loaded modules).
CaptureDisabled_IgnoresProcessing == ~cameraReady

CaptureDisabled == ~cameraReady \/ isProcessing

-----------------------------------------------------------------------------
(* Permission request on mount (useEffect, lines 146-202)                  *)

\* The effect up to its first await. Camera is the imported expo-camera
\* module; cameraModule tells whether it offers requestCameraPermissionsAsync.
RequestPermissions ==
  /\ permission.pc = "mount"
  /\ \E cameraModule \in BOOLEAN :
       IF cameraModule
         THEN /\ updateMessage(utterances, RequestingMsg, FALSE)
              /\ permission' = [pc |-> "requesting", permissionMessage |-> RequestingMsg]
              /\ UNCHANGED hasPermission
         ELSE \* return inside try: the finally block still arms the timer
              /\ hasPermission' = "false"
              /\ updateMessage(utterances, ModuleMissingMsg, TRUE)
              /\ permission' = [pc |-> "timer", permissionMessage |-> ModuleMissingMsg]
  /\ lastEvent' = "request_permissions"
  /\ lastCancelled' = 0
  /\ settled' = NoRun
  /\ lastCommand' = <<>>
  /\ UNCHANGED <<cameraReady, currentMode, isProcessing, remoteControlEnabled, serverStatus,
                 deviceIP, inflight, nStarted>>

\* Camera.requestCameraPermissionsAsync() resolves; speechGranted is always true.
PermissionResolve ==
  /\ permission.pc = "requesting"
  /\ \E cameraGranted \in BOOLEAN :
       IF cameraGranted
         THEN /\ hasPermission' = "true"
              /\ currentMode' = "passive"
              /\ permission' = [pc |-> "timer", permissionMessage |-> GrantedMsg]
              /\ lastEvent' = "permission_granted"
         ELSE /\ hasPermission' = "false"
              /\ permission' = [pc |-> "timer", permissionMessage |-> CameraDeniedMsg]
              /\ lastEvent' = "permission_denied"
              /\ UNCHANGED currentMode
  /\ lastCancelled' = 0
  /\ settled' = NoRun
  /\ lastCommand' = <<>>
  /\ UNCHANGED <<cameraReady, message, isProcessing, remoteControlEnabled, serverStatus,
                 deviceIP, utterances, inflight, nStarted>>

\* Camera.requestCameraPermissionsAsync() rejects.
PermissionReject ==
  /\ permission.pc = "requesting"
  /\ \E e \in PermissionErrors :
       permission' = [pc |-> "timer", permissionMessage |-> PermissionErrorMsg(e)]
  /\ hasPermission' = "false"
  /\ lastEvent' = "permission_error"
  /\ lastCancelled' = 0
  /\ settled' = NoRun
  /\ lastCommand' = <<>>
  /\ UNCHANGED <<cameraReady, currentMode, message, isProcessing, remoteControlEnabled,
                 serverStatus, deviceIP, utterances, inflight, nStarted>>

\* The 500 ms timer armed in the finally block fires.
PermissionTimer_ResetsMode ==
  /\ permission.pc = "timer"
  /\ updateMessage(utterances, permission.permissionMessage, TRUE)
  /\ permission' = [permission EXCEPT !.pc = "done"]
  /\ currentMode' = "passive"
  /\ lastEvent' = "permission_timer"
  /\ lastCancelled' = 0
  /\ settled' = NoRun
  /\ lastCommand' = <<>>
  /\ UNCHANGED <<hasPermission, cameraReady, isProcessing, remoteControlEnabled,
                 serverStatus, deviceIP, inflight, nStarted>>

PermissionTimer ==
  /\ permission.pc = "timer"
  /\ updateMessage(utterances, permission.permissionMessage, TRUE)
  /\ permission' = [permission EXCEPT !.pc = "done"]
  /\ lastEvent' = "permission_timer"
  /\ lastCancelled' = 0
  /\ settled' = NoRun
  /\ lastCommand' = <<>>
  /\ UNCHANGED <<hasPermission, cameraReady, currentMode, isProcessing, remoteControlEnabled,
                 serverStatus, deviceIP, inflight, nStarted>>

\* onCameraReady of the mounted CameraView.
CameraReady ==
  /\ MainUI
  /\ ~cameraReady
  /\ cameraReady' = TRUE
  /\ lastEvent' = "camera_ready"
  /\ lastCancelled' = 0
  /\ settled' = NoRun
  /\ lastCommand' = <<>>
  /\ UNCHANGED <<hasPermission, permission, currentMode, message, isProcessing,
                 remoteControlEnabled, serverStatus, deviceIP, utterances, inflight,
                 nStarted>>

-----------------------------------------------------------------------------
(* Mode buttons and remote-control switch                                  *)

ModeButtonPress(m) ==
  /\ MainUI
  /\ currentMode' = m
  /\ updateMessage(utterances, ModeMsg(m), TRUE)
  /\ lastEvent' = "mode"
  /\ lastCancelled' = 0
  /\ settled' = NoRun
  /\ lastCommand' = <<>>
  /\ UNCHANGED <<hasPermission, permission, cameraReady, isProcessing, remoteControlEnabled,
                 serverStatus, deviceIP, inflight, nStarted>>

\* startServer has no await: it runs to its end inside the toggle handler.
startServer_StaysStarting ==
  /\ serverStatus' = "Starting..."
  /\ deviceIP' = placeholderIP
  /\ updateMessage(utterances, RemoteEnabledMsg, TRUE)

startServer ==
  /\ serverStatus' = "Running"
  /\ deviceIP' = placeholderIP
  /\ updateMessage(utterances, RemoteEnabledMsg, TRUE)

stopServer ==
  /\ serverStatus' = "Stopped"
  /\ remoteControlEnabled' = FALSE
  /\ updateMessage(utterances, RemoteDisabledMsg, TRUE)
  /\ UNCHANGED deviceIP

toggleRemoteControl ==
  /\ MainUI
  /\ IF remoteControlEnabled
       THEN stopServer
       ELSE remoteControlEnabled' = TRUE /\ startServer
  /\ lastEvent' = "toggle"
  /\ lastCancelled' = 0
  /\ settled' = NoRun
  /\ lastCommand' = <<>>
  /\ UNCHANGED <<hasPermission, permission, cameraReady, currentMode, isProcessing,
                 inflight, nStarted>>

-----------------------------------------------------------------------------
(* Remote command interpreter (handleRemoteCommand, lines 120-143)         *)

\* A command token is a string, kept as the sequence of its characters.
Letters == <<"a", "b", "c", "d", "e", "f", "g", "h", "i", "j", "k", "l", "m",
             "n", "o", "p", "q", "r", "s", "t", "u", "v", "w", "x", "y", "z">>
Capitals == <<"A", "B", "C", "D", "E", "F", "G", "H", "I", "J", "K", "L", "M",
              "N", "O", "P", "Q", "R", "S", "T", "U", "V", "W", "X", "Y", "Z">>

\* The lower-case and upper-case forms of the letters; other characters
\* are their own.
LowerOf == [c \in {Capitals[k] : k \in 1..Len(Capitals)} |->
              Letters[CHOOSE k \in 1..Len(Capitals) : Capitals[k] = c]]

UpperOf == [c \in {Letters[k] : k \in 1..Len(Letters)} |->
              Capitals[CHOOSE k \in 1..Len(Letters) : Letters[k] = c]]

toLowerChar(c) == IF c \in DOMAIN LowerOf THEN LowerOf[c] ELSE c

toUpperChar(c) == IF c \in DOMAIN UpperOf THEN UpperOf[c] ELSE c

\* String.prototype.toLowerCase
toLowerCase(s) == [i \in 1..Len(s) |-> toLowerChar(s[i])]

toUpperCase(s) == [i \in 1..Len(s) |-> toUpperChar(s[i])]

Capitalised(s) == [i \in 1..Len(s) |-> IF i = 1 THEN toUpperChar(s[i]) ELSE s[i]]

\* The string a character sequence stands for.
RECURSIVE Text(_)
Text(s) == IF s = <<>> THEN "" ELSE Head(s) \o Text(Tail(s))

\* The case labels of the switch.
SpeakToken == <<"s", "p", "e", "a", "k">>
StatusToken == <<"s", "t", "a", "t", "u", "s">>
ReadToken == <<"r", "e", "a", "d">>
NavigateToken == <<"n", "a", "v", "i", "g", "a", "t", "e">>
PassiveToken == <<"p", "a", "s", "s", "i", "v", "e">>

Vocabulary == {SpeakToken, StatusToken, ReadToken, NavigateToken, PassiveToken}

\* Tokens that match no case label in any casing.
UnknownTokens == {<<"b", "a", "n", "a", "n", "a">>, <<"B", "a", "n", "a", "n", "a">>,
                  <<"s", "t", "o", "p">>}

\* The tokens the command channel is taken to deliver.
Tokens ==
  Vocabulary \cup {toUpperCase(w) : w \in Vocabulary}
             \cup {Capitalised(w) : w \in Vocabulary} \cup UnknownTokens

GreetingMsg == "Hello from remote device!"
StatusMsg(mode) == "Current mode is " \o mode
ModeSetMsg(mode) == "Mode set to " \o mode
EchoMsg(command) == "Received command: " \o Text(command)

\* The switch statement: token is the value switched on, statusMode the mode
\* the status case reads, greeting and echoed the texts of the speak and
\* default cases. speak() is called directly: the displayed message is not
\* touched.
commandSwitch(token, statusMode, greeting, echoed) ==
  CASE token = SpeakToken ->
         /\ utterances' = speak(utterances, greeting)
         /\ UNCHANGED currentMode
    [] token = StatusToken ->
         /\ utterances' = speak(utterances, StatusMsg(statusMode))
         /\ UNCHANGED currentMode
    [] token = ReadToken ->
         /\ currentMode' = "read"
         /\ utterances' = speak(utterances, ModeSetMsg("read"))
    [] token = NavigateToken ->
         /\ currentMode' = "navigate"
         /\ utterances' = speak(utterances, ModeSetMsg("navigate"))
    [] token = PassiveToken ->
         /\ currentMode' = "passive"
         /\ utterances' = speak(utterances, ModeSetMsg("passive"))
    [] OTHER ->
         /\ utterances' = speak(utterances, EchoMsg(echoed))
         /\ UNCHANGED currentMode

handleRemoteCommand_StatusAtMount(command) ==
  commandSwitch(toLowerCase(command), "passive", GreetingMsg, command)

handleRemoteCommand_SpeakFallsThrough(command) ==
  commandSwitch(toLowerCase(command), currentMode, StatusMsg(currentMode), command)

handleRemoteCommand_CaseSensitive(command) ==
  commandSwitch(command, currentMode, GreetingMsg, command)

handleRemoteCommand_EchoesLowered(command) ==
  commandSwitch(toLowerCase(command), currentMode, GreetingMsg, toLowerCase(command))

handleRemoteCommand(command) ==
  commandSwitch(toLowerCase(command), currentMode, GreetingMsg, command)

\* A token arrives on the command channel and is interpreted. The code has
\* no caller of handleRemoteCommand: the channel is taken to be open while
\* remote control is enabled and to hand each token, one at a time, to the
\* handler of the current render.
RemoteCommand(command) ==
  /\ remoteControlEnabled
  /\ handleRemoteCommand(command)
  /\ lastEvent' = "command"
  /\ lastCancelled' = 0
  /\ lastCommand' = command
  /\ settled' = NoRun
  /\ UNCHANGED <<hasPermission, permission, cameraReady, message, isProcessing,
                 remoteControlEnabled, serverStatus, deviceIP, inflight, nStarted>>

-----------------------------------------------------------------------------
(* Capture-and-describe pipeline (processImage, lines 225-299)             *)

\* A run at its first await: mode is the currentMode of the handler's closure,
\* requests counts the backend requests the run has sent.
NewRun == [pc |-> "capturing", mode |-> currentMode, stoppedIn |-> "none",
           requests |-> 0, prompt |-> ""]

\* The entry check of processImage.
NotReady_RefOnly == ~cameraRefCurrent

NotReady_Skipped == FALSE

NotReady == ~cameraReady \/ ~cameraRefCurrent

\* processImage up to its first await.
processImage_NoSpeechStop ==
  IF NotReady
    THEN /\ updateMessage(utterances, NotReadyMsg, TRUE)
         /\ lastEvent' = "capture_notready"
         /\ lastCancelled' = 0
         /\ UNCHANGED <<isProcessing, inflight, nStarted>>
    ELSE /\ nStarted < MaxRuns
         /\ isProcessing' = TRUE
         /\ updateMessage(utterances, AnalyzingMsg, FALSE)
         /\ inflight' = Append(inflight, NewRun)
         /\ nStarted' = nStarted + 1
         /\ lastEvent' = "capture_started"
         /\ lastCancelled' = 0

processImage ==
  IF NotReady
    THEN /\ updateMessage(utterances, NotReadyMsg, TRUE)
         /\ lastEvent' = "capture_notready"
         /\ lastCancelled' = 0
         /\ UNCHANGED <<isProcessing, inflight, nStarted>>
    ELSE /\ nStarted < MaxRuns
         /\ isProcessing' = TRUE
         /\ updateMessage(SpeechStop(utterances), AnalyzingMsg, FALSE)
         /\ inflight' = Append(inflight, NewRun)
         /\ nStarted' = nStarted + 1
         /\ lastEvent' = "capture_started"
         /\ lastCancelled' = Len(utterances)

\* A touch on the capture button: a disabled TouchableOpacity ignores it.
CapturePress ==
  /\ MainUI
  /\ IF CaptureDisabled
       THEN /\ lastEvent' = "capture_disabled"
            /\ lastCancelled' = 0
            /\ UNCHANGED <<message, utterances, isProcessing, inflight, nStarted>>
       ELSE processImage
  /\ settled' = NoRun
  /\ lastCommand' = <<>>
  /\ UNCHANGED <<hasPermission, permission, cameraReady, currentMode, remoteControlEnabled,
                 serverStatus, deviceIP>>

\* processImage called as a function, whatever the button's state.
ProcessImageCall ==
  /\ processImage
  /\ settled' = NoRun
  /\ lastCommand' = <<>>
  /\ UNCHANGED <<hasPermission, permission, cameraReady, currentMode, remoteControlEnabled,
                 serverStatus, deviceIP>>

RemoveAt(s, i) == SubSeq(s, 1, i - 1) \o SubSeq(s, i + 1, Len(s))

\* takePictureAsync resolves: the prompt is resolved from the mode the
\* handler's closure holds and the request is sent (lines 244-276).
CaptureResolve_LiveMode(i) ==
  /\ inflight[i].pc = "capturing"
  /\ inflight' = [inflight EXCEPT ![i].pc = "awaiting",
                                  ![i].prompt = getPromptForMode(currentMode),
                                  ![i].requests = inflight[i].requests + 1]
  /\ lastEvent' = "capture_resolved"
  /\ lastCancelled' = 0
  /\ settled' = NoRun
  /\ lastCommand' = <<>>
  /\ UNCHANGED <<appVars, utterances, nStarted>>

CaptureResolve(i) ==
  /\ inflight[i].pc = "capturing"
  /\ inflight' = [inflight EXCEPT ![i].pc = "awaiting",
                                  ![i].prompt = getPromptForMode(inflight[i].mode),
                                  ![i].requests = inflight[i].requests + 1]
  /\ lastEvent' = "capture_resolved"
  /\ lastCancelled' = 0
  /\ settled' = NoRun
  /\ lastCommand' = <<>>
  /\ UNCHANGED <<appVars, utterances, nStarted>>

\* The finally block (lines 296-298).
Finally_Missing == UNCHANGED isProcessing

Finally_Toggle == isProcessing' = ~isProcessing

Finally == isProcessing' = FALSE

\* The end of run i: its last updateMessage, then the finally block.
Settle(i, outcome, text, cause, result, shouldSpeak) ==
  /\ updateMessage(utterances, text, shouldSpeak)
  /\ Finally
  /\ inflight' = RemoveAt(inflight, i)
  /\ settled' = [outcome |-> outcome, said |-> text,
                 requests |-> inflight[i].requests,
                 stoppedIn |-> inflight[i].stoppedIn,
                 prompt |-> inflight[i].prompt,
                 cause |-> cause, result |-> result]
  /\ lastCommand' = <<>>
  /\ lastCancelled' = 0
  /\ UNCHANGED <<hasPermission, permission, cameraReady, currentMode, remoteControlEnabled,
                 serverStatus, deviceIP, nStarted>>

\* The catch block (lines 292-295) followed by finally.
CatchFinally_Silent(i, e) == Settle(i, "hard", ErrorMessage(e), e, <<>>, FALSE)

CatchFinally(i, e) == Settle(i, "hard", ErrorMessage(e), e, <<>>, TRUE)

\* takePictureAsync rejects: the rest of the try block is skipped.
CaptureReject_Swallowed(i) ==
  /\ inflight[i].pc = "capturing"
  /\ inflight' = [inflight EXCEPT ![i].pc = "awaiting",
                                  ![i].prompt = getPromptForMode(inflight[i].mode),
                                  ![i].requests = inflight[i].requests + 1]
  /\ lastEvent' = "capture_failed"
  /\ lastCancelled' = 0
  /\ settled' = NoRun
  /\ lastCommand' = <<>>
  /\ UNCHANGED <<appVars, utterances, nStarted>>

CaptureReject(i) ==
  /\ inflight[i].pc = "capturing"
  /\ \E e \in CaptureErrors : CatchFinally(i, e)
  /\ lastEvent' = "capture_failed"

\* fetch rejects (transport error) or response.json() rejects (parse error).
BackendReject(i) ==
  /\ inflight[i].pc = "awaiting"
  /\ \E e \in FetchErrors \cup ParseErrors : CatchFinally(i, e)
  /\ lastEvent' = "backend_failed"

\* fetch and response.json() resolve with a parsed body (lines 278-291, 296-298).
BackendResolve(i) ==
  /\ inflight[i].pc = "awaiting"
  /\ \E result \in Responses :
       Settle(i, IF HasDescription(result) THEN "success" ELSE "soft",
              Description(result), "", <<result>>, TRUE)
  /\ lastEvent' = "backend_resolved"

-----------------------------------------------------------------------------
(* Stop button (lines 456-463)                                             *)

MarkStopped(r) == IF r.stoppedIn = "none" THEN [r EXCEPT !.stoppedIn = r.pc] ELSE r

StopPress_KeepsProcessing ==
  /\ MainUI
  /\ UNCHANGED isProcessing
  /\ updateMessage(SpeechStop(utterances), StoppedMsg, TRUE)
  /\ inflight' = [i \in 1..Len(inflight) |-> MarkStopped(inflight[i])]
  /\ lastEvent' = "stop"
  /\ lastCancelled' = Len(utterances)
  /\ settled' = NoRun
  /\ lastCommand' = <<>>
  /\ UNCHANGED <<hasPermission, permission, cameraReady, currentMode, remoteControlEnabled,
                 serverStatus, deviceIP, nStarted>>

StopPress ==
  /\ MainUI
  /\ isProcessing' = FALSE
  /\ updateMessage(SpeechStop(utterances), StoppedMsg, TRUE)
  /\ inflight' = [i \in 1..Len(inflight) |-> MarkStopped(inflight[i])]
  /\ lastEvent' = "stop"
  /\ lastCancelled' = Len(utterances)
  /\ settled' = NoRun
  /\ lastCommand' = <<>>
  /\ UNCHANGED <<hasPermission, permission, cameraReady, currentMode, remoteControlEnabled,
                 serverStatus, deviceIP, nStarted>>

-----------------------------------------------------------------------------
(* Specifications                                                          *)

Init ==
  /\ hasPermission = "null"
  /\ permission = [pc |-> "mount", permissionMessage |-> ""]
  /\ cameraReady = FALSE
  /\ currentMode = "passive"
  /\ message = InitialMessage
  /\ isProcessing = FALSE
  /\ remoteControlEnabled = FALSE
  /\ serverStatus = "Stopped"
  /\ deviceIP = ""
  /\ utterances = <<>>
  /\ inflight = <<>>
  /\ nStarted = 0
  /\ settled = NoRun
  /\ lastEvent = "init"
  /\ lastCancelled = 0
  /\ lastCommand = <<>>

Pipeline ==
  \E i \in 1..Len(inflight) :
    \/ CaptureResolve(i)
    \/ CaptureReject(i)
    \/ BackendResolve(i)
    \/ BackendReject(i)

Next ==
  \/ RequestPermissions
  \/ PermissionResolve
  \/ PermissionReject
  \/ PermissionTimer
  \/ CameraReady
  \/ \E m \in Modes : ModeButtonPress(m)
  \/ CapturePress
  \/ StopPress
  \/ Pipeline
  \/ SpeechFinish

\* The app driven through its rendered controls, the remote-control switch
\* left alone.
Spec == Init /\ [][Next]_vars

\* The same, with processImage also callable while the button is disabled.
NextCall == Next \/ ProcessImageCall

SpecCall == Init /\ [][NextCall]_vars

\* The app with the remote-control switch and the command channel in use,
\* and at most MaxRemoteRuns pipeline runs.
NextRemote ==
  \/ Next /\ nStarted' <= MaxRemoteRuns
  \/ toggleRemoteControl
  \/ \E command \in Tokens : RemoteCommand(command)

SpecRemote == Init /\ [][NextRemote]_vars

-----------------------------------------------------------------------------
(* Properties                                                              *)

CaptureEvents == {"capture_disabled", "capture_notready", "capture_started"}

AwaitingRuns == {i \in 1..Len(inflight) : inflight[i].pc = "awaiting"}

\* C1: a capture press made while isProcessing is true starts no pipeline
\* run: no run is added (no still image is taken, no backend request sent)
\* and nothing else of the pipeline changes.
C1_PressWhileProcessingIsNoOp ==
  [][(lastEvent' \in CaptureEvents /\ isProcessing)
       => /\ inflight' = inflight
          /\ nStarted' = nStarted
          /\ isProcessing' = isProcessing
          /\ utterances' = utterances
          /\ message' = message]_vars

C1_Witness ==
  /\ lastEvent = "capture_disabled"
  /\ isProcessing
  /\ Len(inflight) = 1

\* C2: at most one backend call is in flight at any time.
C2_AtMostOneCallInFlight == Cardinality(AwaitingRuns) <= 1

\* C3: a run that Stop abandoned while it awaited the backend result speaks
\* nothing when its backend call settles later.
C3_AbandonedRunSpeaksNothing ==
  [][(settled'.outcome # "none" /\ settled'.stoppedIn = "awaiting")
       => utterances' = utterances]_vars

\* C4: every run that settles leaves isProcessing false and the capture
\* button enabled, on the success, soft-failure and hard-failure paths.
C4_SettledRunClearsProcessing ==
  /\ settled.outcome # "none" => settled.outcome \in {"success", "soft", "hard"}
  /\ settled.outcome \in {"success", "soft", "hard"}
       => ~isProcessing /\ ~CaptureDisabled

C4_Witness ==
  /\ settled.outcome = "hard"
  /\ settled.requests = 1
  /\ settled.stoppedIn = "none"
  /\ ~isProcessing

\* C5: a run produces exactly one utterance, when it settles: none at its
\* start or when the image arrives, and at its end the description (success),
\* the fixed fallback message (soft failure) or the failure message carrying
\* the error detail (hard failure).
C5_ExactlyOneUtterancePerRun ==
  [][/\ lastEvent' = "capture_started" => utterances' = <<>>
     /\ lastEvent' = "capture_resolved" => utterances' = utterances
     /\ settled'.outcome # "none"
          => /\ utterances' = <<settled'.said>>
             /\ message' = settled'.said
             /\ settled'.outcome = "success"
                  => settled'.said = settled'.result[1].candidates[1].parts[1].text
                     \/ ~settled'.result[1].candidates[1].parts[1].hasText
             /\ settled'.outcome = "soft" => settled'.said = FallbackMsg
             /\ settled'.outcome = "hard"
                  => /\ settled'.cause \in CaptureErrors \cup FetchErrors \cup ParseErrors
                     /\ settled'.said = ErrorMessage(settled'.cause)]_vars

C5_Witness ==
  /\ settled.outcome = "hard"
  /\ settled.cause \in FetchErrors
  /\ utterances = <<ErrorMessage(settled.cause)>>

\* C6: Stop, in any pipeline state, leaves isProcessing false and the sink
\* holding only Stop's own announcement: what was being spoken is cancelled.
C6_StopClearsAndCancels ==
  [][lastEvent' = "stop"
       => /\ ~isProcessing'
          /\ utterances' = <<StoppedMsg>>
          /\ lastCancelled' = Len(utterances)]_vars

C6_Witness ==
  /\ lastEvent = "stop"
  /\ lastCancelled = 1
  /\ \E i \in 1..Len(inflight) : inflight[i].stoppedIn = "capturing"
  /\ \E i \in 1..Len(inflight) : inflight[i].stoppedIn = "awaiting" /\ inflight[i].pc = "awaiting"

\* C7: isProcessing becomes true only in the step of a capture press that
\* starts a run; the settling of a run, stopped or not, never sets it.
C7_OnlyCaptureSetsProcessing ==
  [][(~isProcessing /\ isProcessing') => lastEvent' = "capture_started"]_vars

C7_Witness ==
  /\ settled.outcome # "none"
  /\ settled.stoppedIn = "awaiting"
  /\ ~isProcessing
  /\ inflight = <<>>

\* C8: processImage entered while the camera is not ready starts no run
\* (so no backend call), leaves isProcessing as it is, and displays and
\* speaks the 'Camera not ready' message.
C8_NotReadyReportsAndReturns ==
  [][(lastEvent' \in {"capture_notready", "capture_started"}
        /\ (~cameraReady \/ ~cameraRefCurrent))
       => /\ inflight' = inflight
          /\ nStarted' = nStarted
          /\ isProcessing' = isProcessing
          /\ message' = NotReadyMsg
          /\ utterances' = <<NotReadyMsg>>]_vars

C8_Witness ==
  /\ lastEvent = "capture_notready"
  /\ hasPermission = "true"
  /\ ~cameraReady
  /\ utterances = <<NotReadyMsg>>

\* C9: when takePictureAsync rejects, the run settles in that step without
\* having sent a backend request, one failure message naming the cause is
\* displayed and spoken, and isProcessing is cleared.
C9_CaptureFailureSkipsBackend ==
  lastEvent = "capture_failed"
    => /\ settled.outcome = "hard"
       /\ settled.requests = 0
       /\ settled.cause \in CaptureErrors
       /\ utterances = <<ErrorMessage(settled.cause)>>
       /\ message = ErrorMessage(settled.cause)
       /\ ~isProcessing

C9_Witness ==
  /\ lastEvent = "capture_failed"
  /\ settled.outcome = "hard"
  /\ settled.requests = 0
  /\ utterances = <<ErrorMessage("Camera is not running")>>

ZeroCandidates(r) == ~r.hasCandidates \/ Len(r.candidates) = 0

FirstCandidateWithoutParts(r) ==
  /\ r.hasCandidates
  /\ Len(r.candidates) > 0
  /\ \/ ~r.candidates[1].hasContent
     \/ ~r.candidates[1].hasParts
     \/ Len(r.candidates[1].parts) = 0

\* C10: a response with zero candidates, or whose first candidate has no
\* content parts, is answered with the fixed fallback message on the soft
\* path: no failure message and no empty utterance.
C10_NoCandidateSpeaksFallback ==
  (lastEvent = "backend_resolved"
     /\ (ZeroCandidates(settled.result[1]) \/ FirstCandidateWithoutParts(settled.result[1])))
    => /\ settled.outcome = "soft"
       /\ utterances = <<"No clear description was generated. Please try again.">>
       /\ message = "No clear description was generated. Please try again."

C10_Witness ==
  /\ lastEvent = "backend_resolved"
  /\ settled.result = <<Result(<<>>)>>
  /\ utterances = <<FallbackMsg>>

FirstPartReached(r) ==
  /\ r.hasCandidates
  /\ Len(r.candidates) > 0
  /\ r.candidates[1].hasContent
  /\ r.candidates[1].hasParts
  /\ Len(r.candidates[1].parts) > 0

FirstTextEmptyOrAbsent(r) ==
  /\ FirstPartReached(r)
  /\ \/ ~r.candidates[1].parts[1].hasText
     \/ r.candidates[1].parts[1].text = ""

FirstTextPresent(r) ==
  /\ FirstPartReached(r)
  /\ r.candidates[1].parts[1].hasText
  /\ r.candidates[1].parts[1].text # ""

\* C11: a response whose first candidate's first part has an empty or absent
\* text is answered with the fixed fallback message, not with that text.
C11_EmptyTextSpeaksFallback ==
  (lastEvent = "backend_resolved" /\ FirstTextEmptyOrAbsent(settled.result[1]))
    => /\ utterances = <<FallbackMsg>>
       /\ message = FallbackMsg

\* C12: when the first part of the first candidate carries a text, the run
\* speaks and displays exactly that text, whatever the mode, and ends on the
\* success path.
C12_SpeaksFirstCandidateText ==
  (lastEvent = "backend_resolved" /\ FirstTextPresent(settled.result[1]))
    => /\ utterances = <<Head(Head(settled.result[1].candidates).parts).text>>
       /\ message = Head(Head(settled.result[1].candidates).parts).text
       /\ settled.outcome = "success"

C12_Witness ==
  /\ lastEvent = "backend_resolved"
  /\ Len(settled.result[1].candidates) = 2
  /\ settled.prompt = getPromptForMode("read")
  /\ utterances = <<"Stairs on the left">>
  /\ message = "Stairs on the left"

\* C13: the sink never holds more than one utterance, and after every step
\* that requests an utterance it holds exactly the one requested: what was
\* being spoken is cancelled and nothing is queued.
C13_LastRequestedUtteranceOnly ==
  [][/\ Len(utterances') <= 1
     /\ lastEvent' = "mode" => utterances' = <<message'>> /\ message' = ModeMsg(currentMode')
     /\ lastEvent' = "stop" => utterances' = <<StoppedMsg>>
     /\ lastEvent' = "toggle"
          => utterances' = <<IF remoteControlEnabled THEN RemoteDisabledMsg ELSE RemoteEnabledMsg>>
     /\ lastEvent' = "command"
          => /\ Len(utterances') = 1
             /\ utterances'[1] \in {GreetingMsg, EchoMsg(lastCommand')}
                                     \cup {StatusMsg(m) : m \in Modes}
                                     \cup {ModeSetMsg(m) : m \in Modes}
     /\ lastEvent' = "permission_timer" => utterances' = <<permission.permissionMessage>>
     /\ settled'.outcome # "none" => utterances' = <<settled'.said>>]_vars

C13_Witness ==
  /\ lastEvent = "command"
  /\ utterances = <<GreetingMsg>>
  /\ message = StoppedMsg
  /\ Len(inflight) = 1

\* The spellings of a vocabulary word that differ from it in case only.
Variants(w) == {w, toUpperCase(w), Capitalised(w)}

\* The mode a vocabulary word selects, "" when it selects none.
SelectedMode(w) ==
  CASE w = ReadToken -> "read"
    [] w = NavigateToken -> "navigate"
    [] w = PassiveToken -> "passive"
    [] OTHER -> ""

C15_VocabularyEffects ==
  [][lastEvent' = "command"
       => /\ lastCommand' = ReadToken
               => currentMode' = "read" /\ utterances' = <<"Mode set to read">>
          /\ lastCommand' = NavigateToken
               => currentMode' = "navigate" /\ utterances' = <<"Mode set to navigate">>
          /\ lastCommand' = PassiveToken
               => currentMode' = "passive" /\ utterances' = <<"Mode set to passive">>
          /\ lastCommand' = SpeakToken
               => currentMode' = currentMode /\ utterances' = <<"Hello from remote device!">>
          /\ lastCommand' = StatusToken
               => currentMode' = currentMode
                  /\ utterances' = <<"Current mode is " \o currentMode>>
          /\ UNCHANGED <<message, isProcessing, inflight, remoteControlEnabled,
                         serverStatus, cameraReady, hasPermission>>]_vars

C15_Witness ==
  /\ lastEvent = "command"
  /\ lastCommand = SpeakToken
  /\ currentMode = "read"
  /\ utterances = <<"Hello from remote device!">>

\* The utterance and the mode a vocabulary word leads to from mode m.
WordUtterance(w, m) ==
  CASE w = SpeakToken -> GreetingMsg
    [] w = StatusToken -> StatusMsg(m)
    [] OTHER -> ModeSetMsg(SelectedMode(w))

WordMode(w, m) == IF SelectedMode(w) = "" THEN m ELSE SelectedMode(w)

\* C16: a vocabulary word written in upper case or capitalised has the
\* effect of the word itself: the same mode and the same utterance result
\* from the same state.
C16_CaseInsensitive ==
  [][lastEvent' = "command"
       => \A w \in Vocabulary :
            lastCommand' \in Variants(w)
              => /\ currentMode' = WordMode(w, currentMode)
                 /\ utterances' = <<WordUtterance(w, currentMode)>>]_vars

C16_Witness ==
  /\ lastEvent = "command"
  /\ lastCommand = <<"N", "A", "V", "I", "G", "A", "T", "E">>
  /\ currentMode = "navigate"
  /\ utterances = <<"Mode set to navigate">>

\* C17: a token outside the vocabulary is echoed as it was received, and
\* changes nothing else: not the mode, not the processing flag.
C17_UnknownTokenIsEchoed ==
  [][(lastEvent' = "command"
        /\ \A w \in Vocabulary : lastCommand' \notin Variants(w))
       => /\ utterances' = <<"Received command: " \o Text(lastCommand')>>
          /\ lastCommand' = <<"B", "a", "n", "a", "n", "a">>
               => utterances' = <<"Received command: Banana">>
          /\ UNCHANGED <<currentMode, isProcessing, message, inflight>>]_vars

C17_Witness ==
  /\ lastEvent = "command"
  /\ lastCommand = <<"B", "a", "n", "a", "n", "a">>
  /\ utterances = <<"Received command: Banana">>
  /\ isProcessing
  /\ currentMode = "read"

\* The instruction text the source fixes for each mode.
InstructionText(m) ==
  CASE m = "read" -> "Extract all readable text from this image. No extra commentary or explanation. Prioritize the most important text."
    [] m = "navigate" -> "Describe the immediate environment for indoor navigation. Identify key objects, obstacles, pathways, and directional cues. Mention any furniture, doors, stairs, changes in floor level, or other significant features. Provide guidance on what's directly in front, to the left, and to the right. Highlight potential hazards or clear paths."
    [] m = "passive" -> "Describe the scene briefly. Focus on elements that would be helpful for a visually impaired person to navigate or understand their surroundings. For example, if there's text, read it out. If there are obstacles, describe them. Be concise but informative."

\* C18: the prompt resolved for a run is the fixed, non-empty instruction
\* text of the run's mode, a different text for each mode, and resolving it
\* changes nothing but the run that receives it.
C18_PromptPerMode ==
  [][lastEvent' = "capture_resolved"
       => /\ \A i \in 1..Len(inflight') :
               inflight'[i].pc = "awaiting"
                 => /\ inflight'[i].mode \in Modes
                    /\ inflight'[i].prompt = InstructionText(inflight'[i].mode)
                    /\ inflight'[i].prompt # ""
                    /\ \A m \in Modes \ {inflight'[i].mode} :
                         inflight'[i].prompt # InstructionText(m)
          /\ UNCHANGED <<appVars, utterances, nStarted>>]_vars

C18_Witness ==
  /\ lastEvent = "capture_resolved"
  /\ \E i \in 1..Len(inflight) :
       /\ inflight[i].pc = "awaiting"
       /\ inflight[i].mode = "navigate"
       /\ inflight[i].prompt = InstructionText("navigate")

\* C19: while a run that no Stop has abandoned is in flight, isProcessing is
\* true and the capture button is disabled.
C19_LiveRunKeepsProcessing ==
  \A i \in 1..Len(inflight) :
    inflight[i].stoppedIn = "none" => isProcessing /\ CaptureDisabled

\* C20: the prompt a run sends is the one of the mode that was current when
\* its capture was triggered, whatever mode is selected, by a mode button or
\* a remote command, while the run is in flight.
C20_PromptOfTriggerMode ==
  [][/\ lastEvent' = "capture_started"
          => inflight'[Len(inflight')].mode = currentMode
     /\ lastEvent' = "capture_resolved"
          => \A i \in 1..Len(inflight) :
               inflight[i].pc # inflight'[i].pc
                 => /\ inflight'[i].mode = inflight[i].mode
                    /\ inflight'[i].prompt = InstructionText(inflight[i].mode)
     /\ lastEvent' \in {"mode", "command"} => inflight' = inflight]_vars

C20_Witness ==
  /\ lastEvent = "capture_resolved"
  /\ Len(inflight) = 1
  /\ inflight[1].pc = "awaiting"
  /\ inflight[1].mode = "passive"
  /\ currentMode = "read"
  /\ remoteControlEnabled
  /\ utterances = <<"Mode set to read">>
  /\ inflight[1].prompt = InstructionText("passive")

\* C21: a run cancels the speech in progress when it starts, before it has
\* sent any request; sending the request leaves the sink alone; and when the
\* run's result is spoken it is the only utterance in the sink.
C21_SpeechCancelledBeforeRequest ==
  [][/\ lastEvent' = "capture_started"
          => /\ utterances' = <<>>
             /\ lastCancelled' = Len(utterances)
             /\ inflight'[Len(inflight')].pc = "capturing"
             /\ inflight'[Len(inflight')].requests = 0
     /\ lastEvent' = "capture_resolved" => utterances' = utterances
     /\ lastEvent' = "backend_resolved"
          => /\ settled'.requests = 1
             /\ utterances' = <<settled'.said>>]_vars

C21_Witness ==
  /\ lastEvent = "capture_started"
  /\ lastCancelled = 1
  /\ utterances = <<>>
  /\ inflight # <<>>
  /\ inflight[Len(inflight)].requests = 0

\* C22: whenever isProcessing is true, permission has been granted and the
\* camera has reported ready.
C22_ProcessingImpliesReady ==
  isProcessing => hasPermission = "true" /\ cameraReady

C22_Witness ==
  /\ isProcessing
  /\ hasPermission = "true"
  /\ cameraReady
  /\ lastEvent = "capture_started"
  /\ inflight # <<>>

\* C23: currentMode changes only in the step of a mode-button press or of a
\* read, navigate or passive remote command; every other step leaves it as
\* it was.
C23_ModeChangesOnlyBySelection ==
  [][currentMode' # currentMode
       => \/ lastEvent' = "mode"
          \/ /\ lastEvent' = "command"
             /\ toLowerCase(lastCommand') \in {ReadToken, NavigateToken, PassiveToken}]_vars

C23_Witness ==
  /\ lastEvent = "permission_timer"
  /\ hasPermission = "true"
  /\ currentMode = "navigate"

\* C24: while a run that no Stop has abandoned is waiting for the backend
\* and stays waiting, isProcessing stays true in every step other than a
\* press of Stop.
C24_HungCallKeepsProcessing ==
  [][(/\ isProcessing
      /\ lastEvent' # "stop"
      /\ \E i \in 1..Len(inflight) :
           /\ inflight[i].pc = "awaiting"
           /\ inflight[i].stoppedIn = "none"
           /\ \E j \in 1..Len(inflight') : inflight'[j] = inflight[i])
       => isProcessing']_vars

\* C25: once hasPermission is false it stays false, the permission request
\* is not made again, and no pipeline run is ever started.
C25_DenialIsTerminal ==
  [][hasPermission = "false"
       => /\ hasPermission' = "false"
          /\ permission.pc \in {"timer", "done"}
          /\ permission'.pc \in {"timer", "done"}
          /\ ~cameraReady'
          /\ ~isProcessing'
          /\ inflight' = <<>>
          /\ nStarted' = 0]_vars

C25_Witness ==
  /\ hasPermission = "false"
  /\ permission.pc = "done"
  /\ message = NotReadyMsg
  /\ lastEvent = "capture_notready"
  /\ nStarted = 0

\* C26: serverStatus is "Running" exactly while remoteControlEnabled is true
\* and "Stopped" exactly while it is false, and a toggle leaves exactly one
\* utterance, its announcement, in the sink.
C26_ServerStatusFollowsSwitch ==
  [][/\ (serverStatus' = "Running") <=> remoteControlEnabled'
     /\ (serverStatus' = "Stopped") <=> ~remoteControlEnabled'
     /\ lastEvent' = "toggle"
          => /\ remoteControlEnabled' = ~remoteControlEnabled
             /\ utterances' = <<IF remoteControlEnabled'
                                  THEN RemoteEnabledMsg
                                  ELSE RemoteDisabledMsg>>
             /\ message' = utterances'[1]]_vars

C26_Witness ==
  /\ lastEvent = "toggle"
  /\ ~remoteControlEnabled
  /\ serverStatus = "Stopped"
  /\ deviceIP = placeholderIP
  /\ utterances = <<RemoteDisabledMsg>>

====
